---- MODULE Spec2Model ----
(***************************************************************************)
(* Model of backend/manifest_manager.py (ManifestManager, quick_rerate)    *)
(* and of the rating map of backend/one_align_scorer.py.                   *)
(*                                                                         *)
(* Units.  Python floats are modelled by exact fixed-point integers:       *)
(*   oracle scores          thousandths of a point   (80.000 -> 80000)     *)
(*   stored quality/aesthetic/total (round(x, 2))    hundredths (8000)     *)
(*   weights                tenths                   (0.4 -> 4)            *)
(*   thresholds             whole points             (78.0 -> 78)          *)
(* Binary floating-point rounding error is outside the model.              *)
(* Timestamps (datetime.now().isoformat()) are readings of `clock`.        *)
(***************************************************************************)
EXTENDS Integers, Sequences, FiniteSets, TLC

\* ------------------------------------------------------------------ bounds
\* Largest reading of the wall clock.
MaxClock == 1
\* Longest list of paths given to get_pending_files.
MaxPaths == 2
\* Longest files list of a legacy document.
MaxEntries == 2
\* Largest photograph given to calculate_file_hash, in 32 KiB blocks.
MaxBlocks == 5

\* ------------------------------------------------------- program constants
\* f.read(65536): one model block is 32 KiB, so a chunk is two blocks.
ChunkBlocks == 2
\* self.data.get("created", ""): the empty timestamp of a legacy document.
NoTime == -1

MANIFEST_VERSION == "1.0"

\* ------------------------------------------------------------ sample inputs
\* File names of the managed directory.
Names == {"a.jpg", "b.jpg"}
\* The managed directory and a foreign one (paths are <<directory, basename>>).
ManagedDir == "D"
\* File contents, as sequences of 32 KiB blocks.
Contents == {<<1>>, <<2>>}
\* (quality, aesthetic) results of the scoring oracle, in thousandths.
OracleScores == {<<80000, 70000>>, <<71996, 71996>>}
\* The oracle results of the batches that Spec runs.
BatchScores == {<<80000, 70000>>}
\* The photographs that something outside the program rewrites.
Modifiable == {"a.jpg"}
\* Threshold tuples (t4, t3, t2, t1) a caller passes.
ThresholdInputs == {<<78, 72, 66, 58>>, <<85, 80, 75, 70>>}
\* (quality_weight, aesthetic_weight) pairs a caller passes, in tenths.
WeightInputs == {<<4, 6>>, <<5, 5>>}
\* Ratings a human sets through update_file_rating.
ManualRatings == {5}
\* The photographs a human rates.
RatedByHand == Names

\* ------------------------------------------------------------------ helpers
\* dict.get(key, default)
Get(d, k, default) == IF k \in DOMAIN d THEN d[k] ELSE default

\* os.path.basename(file_path)
Basename(path) == path[2]

\* The path of a file of the managed directory.
PathOf(name) == <<ManagedDir, name>>

\* The photographs of the managed directory.
Paths == {PathOf(n) : n \in Names}

\* round(x, 2) for a value given in units of 1/(100*per) points; the result
\* is in hundredths.  Ties go to the even neighbour.
Round2(x, per) ==
    LET lo == x \div per
        r  == x % per
    IN  IF 2 * r < per THEN lo
        ELSE IF 2 * r > per THEN lo + 1
        ELSE IF lo % 2 = 0 THEN lo ELSE lo + 1

\* ------------------------------------------------------------- fingerprint
\* hashlib.md5(...).hexdigest() is modelled as an injective tag of the
\* digested blocks; the empty string "" is the empty sequence.
NoHash == <<>>

Md5(blocks) == <<"md5">> \o blocks

\* chunk = f.read(65536) at the start of the file
HeadChunk(blocks) ==
    SubSeq(blocks, 1, IF Len(blocks) < ChunkBlocks THEN Len(blocks) ELSE ChunkBlocks)

\* A second read that does not seek: it gives the start of the file again.
TailChunkUnsought(blocks) ==
    SubSeq(blocks, 1, IF Len(blocks) < ChunkBlocks THEN Len(blocks) ELSE ChunkBlocks)

\* f.seek(-min(65536, size), 2); chunk = f.read(65536)
TailChunk(blocks) ==
    LET n == IF Len(blocks) < ChunkBlocks THEN Len(blocks) ELSE ChunkBlocks
    IN  SubSeq(blocks, Len(blocks) - n + 1, Len(blocks))

\* A file of the file system: readable or not, and its blocks.
File(readable, blocks) == [readable |-> readable, blocks |-> blocks]

calculate_file_hash(file) ==
    IF ~file.readable THEN NoHash
    ELSE Md5(HeadChunk(file.blocks) \o TailChunk(file.blocks))

\* ------------------------------------------------------------ rating policy
\* OneAlignScorer._map_to_rating; total_score is in 1/10000 points.
map_to_rating(total_score, th) ==
    IF total_score >= th[1] * 10000 THEN 4
    ELSE IF total_score >= th[2] * 10000 THEN 3
    ELSE IF total_score >= th[3] * 10000 THEN 2
    ELSE IF total_score >= th[4] * 10000 THEN 1
    ELSE 0

\* OneAlignScorer.score_image on oracle scores (quality, aesthetic), in
\* thousandths: total is in 1/10000 points.
score_image(quality, aesthetic, qw, aw, th) ==
    LET total == quality * qw + aesthetic * aw
    IN  [quality |-> quality, aesthetic |-> aesthetic, total |-> total,
         rating |-> map_to_rating(total, th)]

\* quick_rerate: total = scores["quality"] * quality_weight +
\* scores["aesthetic"] * aesthetic_weight, on stored hundredths: thousandths.
\* A weighting that gives each score the other one's weight.
RerateTotalSwapped(scores, qw, aw) == scores.quality * aw + scores.aesthetic * qw

RerateTotal(scores, qw, aw) == scores.quality * qw + scores.aesthetic * aw

\* A rating map whose comparisons are strict.
RerateRatingStrict(total, th) ==
    IF total > th[1] * 1000 THEN 4
    ELSE IF total > th[2] * 1000 THEN 3
    ELSE IF total > th[3] * 1000 THEN 2
    ELSE IF total > th[4] * 1000 THEN 1
    ELSE 0

\* quick_rerate: the if/elif chain; total is in thousandths.
RerateRating(total, th) ==
    IF total >= th[1] * 1000 THEN 4
    ELSE IF total >= th[2] * 1000 THEN 3
    ELSE IF total >= th[3] * 1000 THEN 2
    ELSE IF total >= th[4] * 1000 THEN 1
    ELSE 0

\* ------------------------------------------------------------------- ledger
NoFiles == [n \in {} |-> n]

\* files[k] = v
Put(files, k, v) == [n \in (DOMAIN files) \cup {k} |-> IF n = k THEN v ELSE files[n]]

DefaultConfig ==
    [thresholds |-> <<78, 72, 66, 58>>, quality_weight |-> 4, aesthetic_weight |-> 6]

init_new_manifest(now) ==
    [version |-> MANIFEST_VERSION,
     created_at |-> now,
     updated_at |-> now,
     config |-> DefaultConfig,
     status |-> "new",
     total_files |-> 0,
     processed_files |-> 0,
     files |-> NoFiles]

\* The status property and is_completed.
Status(d) == Get(d, "status", "new")

\* A completion test that also accepts an interrupted batch.
StatusNotNew(d) == Status(d) # "new"

is_completed(d) == Status(d) = "completed"

\* An insert that counts every call instead of counting the records.
add_file_result_Counting(d, filename, file_path, file, quality, aesthetic, total, rating, now) ==
    LET rec == [hash |-> calculate_file_hash(file),
                original_path |-> file_path,
                quality |-> Round2(quality, 10),
                aesthetic |-> Round2(aesthetic, 10),
                total |-> Round2(total, 100),
                rating |-> rating,
                processed_at |-> now]
    IN  [d EXCEPT !.files = Put(d.files, filename, rec),
                  !.processed_files = d.processed_files + 1]

\* add_file_result; quality and aesthetic in thousandths, total in 1/10000.
add_file_result(d, filename, file_path, file, quality, aesthetic, total, rating, now) ==
    LET rec == [hash |-> calculate_file_hash(file),
                original_path |-> file_path,
                quality |-> Round2(quality, 10),
                aesthetic |-> Round2(aesthetic, 10),
                total |-> Round2(total, 100),
                rating |-> rating,
                processed_at |-> now]
        files == Put(d.files, filename, rec)
    IN  [d EXCEPT !.files = files, !.processed_files = Cardinality(DOMAIN files)]

\* A rating update that also forgets the record's fingerprint.
update_file_rating_Rehash(d, filename, new_rating, now) ==
    IF filename \in DOMAIN Get(d, "files", NoFiles)
    THEN [d EXCEPT !.files[filename].rating = new_rating,
                   !.files[filename].processed_at = now,
                   !.files[filename].hash = NoHash]
    ELSE d

\* A rating update that leaves a record of five stars alone.
update_file_rating_KeepManual(d, filename, new_rating, now) ==
    IF filename \in DOMAIN Get(d, "files", NoFiles) /\ d.files[filename].rating # 5
    THEN [d EXCEPT !.files[filename].rating = new_rating,
                   !.files[filename].processed_at = now]
    ELSE d

\* A rating update that keeps the record's processed_at.
update_file_rating_Unstamped(d, filename, new_rating, now) ==
    IF filename \in DOMAIN Get(d, "files", NoFiles)
    THEN [d EXCEPT !.files[filename].rating = new_rating]
    ELSE d

\* A rating update that leaves the ledger as it is.
update_file_rating_Skipped(d, filename, new_rating, now) == d

update_file_rating(d, filename, new_rating, now) ==
    IF filename \in DOMAIN Get(d, "files", NoFiles)
    THEN [d EXCEPT !.files[filename].rating = new_rating,
                   !.files[filename].processed_at = now]
    ELSE d

\* What update_file_rating gives its caller: it has no return statement and
\* prints nothing, on either branch of its if.
update_file_rating_returned(d, filename) ==
    IF filename \in DOMAIN Get(d, "files", NoFiles) THEN "None" ELSE "None"

set_config(d, thresholds, quality_weight, aesthetic_weight) ==
    [d EXCEPT !.config = [thresholds |-> thresholds,
                          quality_weight |-> quality_weight,
                          aesthetic_weight |-> aesthetic_weight]]

\* is_file_processed(filename, file_path) against the file found at file_path.
\* A processed test without the check for an empty stored fingerprint.
is_file_processed_NoEmptyCheck(d, filename, file) ==
    IF filename \notin DOMAIN Get(d, "files", NoFiles) THEN FALSE
    ELSE Get(d.files[filename], "hash", NoHash) = calculate_file_hash(file)

is_file_processed(d, filename, file) ==
    IF filename \notin DOMAIN Get(d, "files", NoFiles) THEN FALSE
    ELSE LET stored_hash == Get(d.files[filename], "hash", NoHash)
         IN  IF stored_hash = NoHash THEN FALSE
             ELSE stored_hash = calculate_file_hash(file)

\* get_all_cached_scores
get_all_cached_scores(d) ==
    LET files == Get(d, "files", NoFiles)
    IN  [n \in DOMAIN files |->
            [quality |-> Get(files[n], "quality", 0),
             aesthetic |-> Get(files[n], "aesthetic", 0),
             total |-> Get(files[n], "total", 0),
             rating |-> Get(files[n], "rating", 0)]]

\* -------------------------------------------------------------- persistence
\* The persisted document .superelite_manifest.json:
\*   absent                       the file does not exist
\*   mapping, body                a JSON object whose "files" is an object
\*   legacy, body                 a JSON object whose "files" is a list
\*   bad, why = "invalid_json"    empty or cut-off text, or any other text
\*                                json.load rejects with JSONDecodeError
\*   bad, why = "undecodable"     bytes that are not UTF-8
\*   bad, why = "not_object"      valid JSON whose top level is a list
Absent == [kind |-> "absent"]

Bad(why) == [kind |-> "bad", why |-> why]

\* What open(path, "w") leaves before json.dump has written everything.
Torn == Bad("invalid_json")

\* A dump that writes the ledger without its file records.
DumpNoFiles(d) == [kind |-> "mapping", body |-> [d EXCEPT !.files = NoFiles]]

\* json.dump(self.data, f): every value of the ledger (numbers, strings,
\* lists, objects keyed by strings) has a JSON form that json.load reads back.
Dump(d) == [kind |-> "mapping", body |-> d]

\* d.update(u)
Merge(d, u) ==
    [k \in (DOMAIN d) \cup (DOMAIN u) |-> IF k \in DOMAIN u THEN u[k] ELSE d[k]]

\* An entry of a legacy list that is no JSON object (file_info.get fails).
NonDict == [nondict |-> TRUE]

IsDict(e) == "nondict" \notin DOMAIN e

\* A migration loop that gives every record the fingerprint of a one-block
\* photograph.
RECURSIVE MigrateEntriesHashed(_, _, _, _)
MigrateEntriesHashed(files_data, i, created, new_files) ==
    IF i > Len(files_data) THEN [raised |-> "none", files |-> new_files]
    ELSE LET file_info == files_data[i]
         IN  IF ~IsDict(file_info) THEN [raised |-> "AttributeError", files |-> new_files]
             ELSE LET filename == Get(file_info, "filename", "")
                      scores == Get(file_info, "scores", <<>>)
                      rec == [hash |-> Md5(<<1, 1>>),
                              quality |-> Get(scores, "quality", 0),
                              aesthetic |-> Get(scores, "aesthetic", 0),
                              total |-> Get(scores, "total", 0),
                              rating |-> Get(file_info, "rating", 0),
                              processed_at |-> created]
                  IN  MigrateEntriesHashed(files_data, i + 1, created,
                          IF filename # "" THEN Put(new_files, filename, rec) ELSE new_files)

\* The loop of _migrate_old_format over files_data[i..]: the new mapping, or
\* "AttributeError" when an entry has no get.
RECURSIVE MigrateEntries(_, _, _, _)
MigrateEntries(files_data, i, created, new_files) ==
    IF i > Len(files_data) THEN [raised |-> "none", files |-> new_files]
    ELSE LET file_info == files_data[i]
         IN  IF ~IsDict(file_info) THEN [raised |-> "AttributeError", files |-> new_files]
             ELSE LET filename == Get(file_info, "filename", "")
                      scores == Get(file_info, "scores", <<>>)
                      rec == [hash |-> NoHash,
                              quality |-> Get(scores, "quality", 0),
                              aesthetic |-> Get(scores, "aesthetic", 0),
                              total |-> Get(scores, "total", 0),
                              rating |-> Get(file_info, "rating", 0),
                              processed_at |-> created]
                  IN  MigrateEntries(files_data, i + 1, created,
                          IF filename # "" THEN Put(new_files, filename, rec) ELSE new_files)

\* if key not in self.data: self.data[key] = value
SetDefault(d, key, value) ==
    IF key \in DOMAIN d THEN d ELSE Merge(d, [k \in {key} |-> value])

\* The config _migrate_old_format builds from the legacy "settings".
ConfigOfSettings(settings) ==
    [thresholds |-> Get(settings, "thresholds", <<78, 72, 66, 58>>),
     quality_weight |-> Get(settings, "quality_weight", 4),
     aesthetic_weight |-> Get(settings, "aesthetic_weight", 6)]

\* A migration that does not backfill the status.
MigrateFieldsPartial(body, new_files) ==
    LET created == Get(body, "created", NoTime)
        n == Cardinality(DOMAIN new_files)
    IN  SetDefault(
        SetDefault(
        SetDefault(
        SetDefault(
        SetDefault(
            Merge(body, [files |-> new_files, processed_files |-> n]),
            "version", MANIFEST_VERSION),
            "created_at", created),
            "updated_at", created),
            "config", ConfigOfSettings(Get(body, "settings", <<>>))),
            "total_files", Get(Get(body, "statistics", <<>>), "total", n))

\* _migrate_old_format once the loop has built new_files, up to (not
\* including) save().
MigrateFields(body, new_files) ==
    LET created == Get(body, "created", NoTime)
        n == Cardinality(DOMAIN new_files)
    IN  SetDefault(
        SetDefault(
        SetDefault(
        SetDefault(
        SetDefault(
        SetDefault(
            Merge(body, [files |-> new_files, processed_files |-> n]),
            "version", MANIFEST_VERSION),
            "status", "completed"),
            "created_at", created),
            "updated_at", created),
            "config", ConfigOfSettings(Get(body, "settings", <<>>))),
            "total_files", Get(Get(body, "statistics", <<>>), "total", n))

\* _migrate_old_format on a list-shaped body, up to (not including) save().
migrate_old_format(body) ==
    LET m == MigrateEntries(body.files, 1, Get(body, "created", NoTime), NoFiles)
    IN  [raised |-> m.raised, data |-> MigrateFields(body, m.files)]

\* No ManifestManager object (none constructed, or the constructor raised).
NoData == [none |-> TRUE]

\* load(), up to the save() of a migration.  io = "IOError" is open() failing.
\*   raised    the exception that leaves load ("none" when it returns)
\*   data      self.data afterwards
\*   migrated  _migrate_old_format goes on to save()
load(doc, io, now) ==
    IF io = "IOError" \/ doc.kind = "absent"
        THEN [raised |-> "none", data |-> init_new_manifest(now), migrated |-> FALSE]
    ELSE IF doc.kind = "bad" /\ doc.why = "invalid_json"
        THEN [raised |-> "none", data |-> init_new_manifest(now), migrated |-> FALSE]
    ELSE IF doc.kind = "bad" /\ doc.why = "undecodable"
        THEN [raised |-> "UnicodeDecodeError", data |-> NoData, migrated |-> FALSE]
    ELSE IF doc.kind = "bad"
        THEN [raised |-> "AttributeError", data |-> NoData, migrated |-> FALSE]
    ELSE IF doc.kind = "legacy"
        THEN LET m == migrate_old_format(doc.body)
             IN  IF m.raised # "none"
                 THEN [raised |-> m.raised, data |-> NoData, migrated |-> FALSE]
                 ELSE [raised |-> "none", data |-> m.data, migrated |-> TRUE]
    ELSE [raised |-> "none", data |-> doc.body, migrated |-> FALSE]

\* ManifestManager.__init__
construct(doc, io, now) ==
    IF doc.kind # "absent" THEN load(doc, io, now)
    ELSE [raised |-> "none", data |-> init_new_manifest(now), migrated |-> FALSE]

\* ------------------------------------------------------------- quick_rerate
\* The items of a dict, in the order the loop visits them.
RECURSIVE Items(_)
Items(S) ==
    IF S = {} THEN <<>>
    ELSE LET n == CHOOSE x \in S : TRUE
         IN  <<n>> \o Items(S \ {n})

\* The for loop of quick_rerate over scores[i..]; d is manager.data.
RECURSIVE RerateLoop(_, _, _, _, _, _, _, _, _)
RerateLoop(order, i, scores, d, results, th, qw, aw, now) ==
    IF i > Len(order) THEN [data |-> d, results |-> results]
    ELSE LET filename == order[i]
             old_rating == scores[filename].rating
             total == RerateTotal(scores[filename], qw, aw)
             new_rating == RerateRating(total, th)
             entry == [filename |-> filename,
                       old_rating |-> old_rating,
                       new_rating |-> new_rating,
                       total |-> Round2(total, 10),
                       changed |-> old_rating # new_rating]
         IN  RerateLoop(order, i + 1, scores,
                        update_file_rating(d, filename, new_rating, now),
                        Append(results, entry), th, qw, aw, now)

\* The body of quick_rerate once manager = ManifestManager(directory) holds
\* m and the persisted document is doc; fr is the call's frame, io the
\* outcome of open() in the final save().  Gives the frame, the document and
\* the program position afterwards.
RerateAfterLoad(m, doc, io, fr, now) ==
    IF ~is_completed(m)
    THEN [rr |-> [fr EXCEPT !.phase = "done", !.outcome = "ValueError",
                            !.loaded = m, !.data = m],
          disk |-> doc, pc |-> "idle"]
    ELSE LET scores == get_all_cached_scores(m)
             lp == RerateLoop(Items(DOMAIN scores), 1, scores, m, <<>>,
                              fr.th, fr.qw, fr.aw, now)
             d2 == set_config(lp.data, fr.th, fr.qw, fr.aw)
             d3 == [d2 EXCEPT !.updated_at = now]
         IN  IF io = "IOError"
             THEN [rr |-> [fr EXCEPT !.phase = "done", !.outcome = "returned",
                                     !.loaded = m, !.data = d3,
                                     !.results = lp.results, !.saved = "IOError"],
                   disk |-> doc, pc |-> "idle"]
             ELSE [rr |-> [fr EXCEPT !.phase = "saving",
                                     !.loaded = m, !.data = d3,
                                     !.results = lp.results],
                   disk |-> Torn, pc |-> "rr_saving"]

\* ------------------------------------------------------- get_pending_files
\* The for loop of get_pending_files over all_files[i..]; files maps each
\* path to the file found there.
RECURSIVE PendingLoop(_, _, _, _, _)
PendingLoop(d, all_files, i, files, pending) ==
    IF i > Len(all_files) THEN pending
    ELSE LET file_path == all_files[i]
             filename == Basename(file_path)
         IN  PendingLoop(d, all_files, i + 1, files,
                 IF ~is_file_processed(d, filename, files[file_path])
                 THEN Append(pending, file_path) ELSE pending)

get_pending_files(d, all_files, files) == PendingLoop(d, all_files, 1, files, <<>>)

\* ------------------------------------------------------------------- state
VARIABLES
    disk,   \* the persisted document of the managed directory
    fs,     \* the photographs: path -> File
    clock,  \* datetime.now()
    pc,     \* "idle", or the save() the process is inside of
    data,   \* self.data of the caller's ManifestManager, or NoData
    sv,     \* the save() in progress or cut short: the documents before and after
    rr,     \* the frame of the current or last quick_rerate call
    last,   \* the last call made, with its arguments
    acked   \* the batch start_processing began: whether one runs, and the
            \* records whose add_file_result has returned in it

vars == <<disk, fs, clock, pc, data, sv, rr, last, acked>>

NoSave == [prev |-> Absent, new |-> Absent]

NoBatch == [on |-> FALSE, recs |-> NoFiles]

NoFrame ==
    [phase |-> "none", outcome |-> "", th |-> <<>>, qw |-> 0, aw |-> 0,
     disk0 |-> Absent, loaded |-> NoData, data |-> NoData, results |-> <<>>,
     saved |-> ""]

\* Documents found in a directory before the program first opens it.
LegacyEntryA ==
    [filename |-> "a.jpg",
     scores |-> [quality |-> 8000, aesthetic |-> 7000, total |-> 7400],
     rating |-> 3]

LegacyDocs ==
    { [kind |-> "legacy", body |-> [files |-> <<LegacyEntryA>>, created |-> 0]],
      [kind |-> "legacy", body |-> [files |-> <<LegacyEntryA>>, created |-> 0,
                                    status |-> "in_progress"]],
      [kind |-> "legacy", body |-> [files |-> <<LegacyEntryA, NonDict>>, created |-> 0]] }

InitialDocs ==
    {Absent, Bad("invalid_json"), Bad("undecodable"), Bad("not_object")} \cup LegacyDocs

Init ==
    /\ disk \in InitialDocs
    /\ fs = [p \in Paths |-> File(TRUE, <<1>>)]
    /\ clock = 0
    /\ pc = "idle"
    /\ data = NoData
    /\ sv = NoSave
    /\ rr = NoFrame
    /\ last = [op |-> "none"]
    /\ acked = NoBatch

IoOutcomes == {"ok", "IOError"}

\* ------------------------------------------------------------- environment
\* Time passes.
Tick ==
    /\ clock < MaxClock
    /\ clock' = clock + 1
    /\ UNCHANGED <<disk, fs, pc, data, sv, rr, last, acked>>

\* Something outside the program rewrites a photograph.
ModifyFile ==
    \E n \in Modifiable, c \in Contents :
        /\ fs[PathOf(n)].blocks # c
        /\ fs' = [fs EXCEPT ![PathOf(n)] = File(TRUE, c)]
        /\ acked' = [acked EXCEPT !.recs = [k \in (DOMAIN acked.recs) \ {n} |-> acked.recs[k]]]
        /\ UNCHANGED <<disk, clock, pc, data, sv, rr, last>>

\* The process is killed (or exits): its memory is lost, the file system
\* stays as it is, so a file opened with "w" and not yet written stays cut off.
Kill ==
    /\ data # NoData \/ pc # "idle"
    /\ data' = NoData
    /\ pc' = "idle"
    /\ rr' = IF rr.phase \in {"migrating", "saving"}
             THEN [rr EXCEPT !.phase = "done", !.outcome = "killed"]
             ELSE rr
    /\ last' = [op |-> "kill", during |-> pc]
    /\ UNCHANGED <<disk, fs, clock, sv, acked>>

\* --------------------------------------------------------------------- save
\* save() up to open(self.manifest_path, "w"): updated_at is refreshed, then
\* open() either fails (IOError, printed) or truncates the file.
BeginSave(d) ==
    \E io \in IoOutcomes :
        LET d2 == [d EXCEPT !.updated_at = clock]
        IN  /\ data' = d2
            /\ IF io = "ok"
               THEN disk' = Torn /\ pc' = "saving"
                    /\ sv' = [prev |-> disk, new |-> Dump(d2)]
               ELSE disk' = disk /\ pc' = "idle" /\ sv' = NoSave

\* json.dump and the close of the file: the document is written, or the
\* write fails (IOError, printed) and leaves the file cut off.
FinishSave ==
    /\ pc = "saving"
    /\ \E io \in IoOutcomes :
        /\ disk' = IF io = "ok" THEN Dump(data) ELSE Torn
        /\ last' = [op |-> "save_end", of |-> last.op, io |-> io]
    /\ pc' = "idle"
    /\ sv' = NoSave
    /\ UNCHANGED <<fs, clock, data, rr, acked>>

Save ==
    /\ pc = "idle" /\ data # NoData
    /\ BeginSave(data)
    /\ last' = [op |-> "save"]
    /\ UNCHANGED <<fs, clock, rr, acked>>

\* ------------------------------------------------------- ManifestManager API
\* ManifestManager(directory), by a process that holds no manager.
Construct ==
    /\ pc = "idle" /\ data = NoData
    /\ \E io \in IoOutcomes :
        LET c == construct(disk, io, clock)
        IN  /\ io = "IOError" => disk.kind # "absent"
            /\ IF c.migrated
               THEN BeginSave(c.data)
               ELSE data' = c.data /\ disk' = disk /\ pc' = "idle" /\ sv' = NoSave
            /\ last' = [op |-> "construct", raised |-> c.raised, io |-> io,
                        doc |-> disk]
    /\ acked' = NoBatch
    /\ UNCHANGED <<fs, clock, rr>>

\* manager.load() on a manager the caller holds.  An exception that leaves
\* load goes to the caller, whose handle on the manager is then dropped
\* (undecodable bytes raise before self.data is assigned).
Load ==
    /\ pc = "idle" /\ data # NoData
    /\ \E io \in IoOutcomes :
        LET c == load(disk, io, clock)
        IN  /\ IF c.migrated
               THEN BeginSave(c.data)
               ELSE /\ data' = IF c.raised = "UnicodeDecodeError" THEN data ELSE c.data
                    /\ disk' = disk /\ pc' = "idle" /\ sv' = NoSave
            /\ last' = [op |-> "load", raised |-> c.raised, io |-> io,
                        migrated |-> c.migrated,
                        after |-> <<last.op, Get(last, "io", "ok"), Get(last, "of", "")>>]
    /\ acked' = NoBatch
    /\ UNCHANGED <<fs, clock, rr>>

\* delete(): os.remove and _init_new_manifest, both only when the document
\* exists; os.remove may raise OSError, which goes to the caller.
Delete ==
    /\ pc = "idle" /\ data # NoData
    /\ \E io \in IoOutcomes :
        /\ io = "IOError" => disk.kind # "absent"
        /\ IF disk.kind # "absent" /\ io = "ok"
           THEN disk' = Absent /\ data' = init_new_manifest(clock)
           ELSE disk' = disk /\ data' = data
        /\ last' = [op |-> "delete", existed |-> disk.kind # "absent",
                    raised |-> IF io = "ok" THEN "none" ELSE "OSError"]
    /\ acked' = NoBatch
    /\ UNCHANGED <<fs, clock, pc, sv, rr>>

start_processing ==
    /\ pc = "idle" /\ data # NoData
    /\ BeginSave([data EXCEPT !.status = "in_progress"])
    /\ last' = [op |-> "start_processing"]
    /\ acked' = [on |-> TRUE, recs |-> NoFiles]
    /\ UNCHANGED <<fs, clock, rr>>

complete_processing ==
    /\ pc = "idle" /\ data # NoData
    /\ BeginSave([data EXCEPT !.status = "completed"])
    /\ last' = [op |-> "complete_processing"]
    /\ acked' = NoBatch
    /\ UNCHANGED <<fs, clock, rr>>

\* The call this would be repeats the last one: the same photograph with the
\* same content and the same scores.
Repeats(n, s) ==
    /\ last.op = "add_file_result"
    /\ last.filename = n /\ last.scores = s /\ last.file = fs[PathOf(n)]

\* The batch loop scores one photograph (score_image with the ledger's
\* weights and thresholds) and records the result with add_file_result.
AddFileResult ==
    /\ pc = "idle" /\ data # NoData
    /\ \E n \in Names, s \in BatchScores :
        LET r == score_image(s[1], s[2], data.config.quality_weight,
                             data.config.aesthetic_weight, data.config.thresholds)
            d == add_file_result(data, n, PathOf(n), fs[PathOf(n)],
                                 r.quality, r.aesthetic, r.total, r.rating, clock)
        IN  /\ data' = d
            /\ last' = [op |-> "add_file_result", filename |-> n, scores |-> s,
                        file |-> fs[PathOf(n)], repeat |-> Repeats(n, s),
                        before |-> IF n \in DOMAIN data.files
                                   THEN data.files[n].processed_at ELSE NoTime]
            /\ acked' = IF acked.on
                        THEN [acked EXCEPT !.recs = Put(acked.recs, n, d.files[n])]
                        ELSE acked
    /\ UNCHANGED <<disk, fs, clock, pc, sv, rr>>

Next ==
    \/ Tick
    \/ Kill
    \/ Construct
    \/ Load
    \/ Delete
    \/ Save
    \/ FinishSave
    \/ start_processing
    \/ complete_processing
    \/ AddFileResult

Spec == Init /\ [][Next]_vars

\* The interrupted and resumed batch, with photographs rewritten meanwhile.
NextResume ==
    \/ ModifyFile
    \/ Kill
    \/ Construct
    \/ Save
    \/ FinishSave
    \/ start_processing
    \/ AddFileResult

SpecResume == Init /\ [][NextResume]_vars

\* ------------------------------------------------------------- quick_rerate
\* quick_rerate(directory, new_thresholds, quality_weight, aesthetic_weight)
\* from its call to its first wait for the file system.  io, io2 and io3 are
\* the outcomes of open() in load, in the migration's save and in the final
\* save.
QuickRerateWith(thresholds) ==
    /\ pc = "idle"
    /\ \E th \in thresholds, w \in WeightInputs :
        \E io \in IoOutcomes, io2 \in IoOutcomes, io3 \in IoOutcomes :
        LET fr == [NoFrame EXCEPT !.phase = "called", !.th = th, !.qw = w[1],
                                  !.aw = w[2], !.disk0 = disk]
            c == construct(disk, io, clock)
            m == IF c.migrated THEN [c.data EXCEPT !.updated_at = clock] ELSE c.data
            a == RerateAfterLoad(m, disk, io3, fr, clock)
        IN  /\ io = "IOError" => disk.kind # "absent"
            /\ IF c.raised # "none"
               THEN /\ rr' = [fr EXCEPT !.phase = "done", !.outcome = c.raised]
                    /\ disk' = disk /\ pc' = "idle"
               ELSE IF c.migrated /\ io2 = "ok"
               THEN /\ rr' = [fr EXCEPT !.phase = "migrating", !.data = m]
                    /\ disk' = Torn /\ pc' = "rr_migrating"
               ELSE rr' = a.rr /\ disk' = a.disk /\ pc' = a.pc
    /\ last' = [op |-> "quick_rerate"]
    /\ UNCHANGED <<fs, clock, data, sv, acked>>

\* quick_rerate with the threshold tuples of ThresholdInputs.
QuickRerate == QuickRerateWith(ThresholdInputs)

\* The save() of the migration inside quick_rerate's constructor finishes;
\* quick_rerate goes on to its check and its loop.
QuickRerateMigrated ==
    /\ pc = "rr_migrating"
    /\ \E io \in IoOutcomes, io3 \in IoOutcomes :
        LET doc == IF io = "ok" THEN Dump(rr.data) ELSE Torn
            a == RerateAfterLoad(rr.data, doc, io3, rr, clock)
        IN  rr' = a.rr /\ disk' = a.disk /\ pc' = a.pc
    /\ UNCHANGED <<fs, clock, data, sv, last, acked>>

\* The final save() of quick_rerate finishes and quick_rerate returns.
QuickRerateReturn ==
    /\ pc = "rr_saving"
    /\ \E io \in IoOutcomes :
        /\ disk' = IF io = "ok" THEN Dump(rr.data) ELSE Torn
        /\ rr' = [rr EXCEPT !.phase = "done", !.outcome = "returned", !.saved = io]
    /\ pc' = "idle"
    /\ UNCHANGED <<fs, clock, data, sv, last, acked>>

\* Ledgers a batch leaves behind: each photograph scored or not (<<>>).
RECURSIVE Scored(_, _, _)
Scored(d, order, assign) ==
    IF order = <<>> THEN d
    ELSE LET n == order[1]
             s == assign[n]
             r == score_image(s[1], s[2], d.config.quality_weight,
                              d.config.aesthetic_weight, d.config.thresholds)
         IN  Scored(IF s = <<>> THEN d
                    ELSE add_file_result(d, n, PathOf(n), File(TRUE, <<1>>),
                                         r.quality, r.aesthetic, r.total, r.rating, 0),
                    SubSeq(order, 2, Len(order)), assign)

BatchLedgers ==
    { [Scored(init_new_manifest(0), Items(Names), assign) EXCEPT !.status = st] :
        assign \in [Names -> OracleScores \cup {<<>>}],
        st \in {"in_progress", "completed"} }

\* A completed ledger in which a human gave a photograph five stars.
CuratedLedgers ==
    { update_file_rating(d, n, r, 0) :
        d \in {b \in BatchLedgers : b.status = "completed"},
        n \in Modifiable, r \in ManualRatings }

\* The documents quick_rerate is called on: those of InitialDocs, and the
\* saved ledgers of new, interrupted, completed and curated batches.
RerateDocs ==
    InitialDocs \cup {Dump(init_new_manifest(0))}
    \cup {Dump(d) : d \in BatchLedgers \cup CuratedLedgers}

InitRerate ==
    /\ disk \in RerateDocs
    /\ fs = [p \in Paths |-> File(TRUE, <<1>>)]
    /\ clock = 0
    /\ pc = "idle"
    /\ data = NoData
    /\ sv = NoSave
    /\ rr = NoFrame
    /\ last = [op |-> "none"]
    /\ acked = NoBatch

NextRerate ==
    \/ Tick
    \/ Kill
    \/ QuickRerate
    \/ QuickRerateMigrated
    \/ QuickRerateReturn

SpecRerate == InitRerate /\ [][NextRerate]_vars

\* ------------------------------------------------ get_pending_files, alone
\* A path outside the managed directory whose basename is also one inside.
ForeignPath == <<"E", "a.jpg">>

PendingPaths == Paths \cup {ForeignPath}

\* A photograph as get_pending_files may find it: either content, or unreadable.
PendingFiles == {File(TRUE, c) : c \in Contents} \cup {File(FALSE, <<>>)}

\* Ledgers with any of the photographs recorded under any fingerprint.
PendingLedgers ==
    { [init_new_manifest(0) EXCEPT
          !.files = [n \in DOMAIN h |->
                        [hash |-> h[n], original_path |-> PathOf(n),
                         quality |-> 8000, aesthetic |-> 7000, total |-> 7400,
                         rating |-> 3, processed_at |-> 0]],
          !.processed_files = Cardinality(DOMAIN h)] :
        h \in UNION { [S -> {NoHash} \cup {calculate_file_hash(File(TRUE, c)) : c \in Contents}] :
                        S \in SUBSET Names } }

InitPending ==
    /\ disk = Absent
    /\ fs \in [PendingPaths -> PendingFiles]
    /\ clock = 0
    /\ pc = "idle"
    /\ data \in PendingLedgers
    /\ sv = NoSave
    /\ rr = NoFrame
    /\ \E k \in 0..MaxPaths : \E l \in [1..k -> PendingPaths] :
           last = [op |-> "input", all_files |-> l]
    /\ acked = NoBatch

GetPendingFiles ==
    /\ last.op = "input"
    /\ last' = [op |-> "get_pending_files", all_files |-> last.all_files,
                result |-> get_pending_files(data, last.all_files, fs)]
    /\ UNCHANGED <<disk, fs, clock, pc, data, sv, rr, acked>>

SpecPending == InitPending /\ [][GetPendingFiles]_vars

\* --------------------------------------------------- the rating map, alone
\* Thresholds in any order, and totals (thousandths) at and around them.
PolicyPoints == {60, 70, 80}

PolicyTotals ==
    {0, 100000} \cup {t * 1000 + e : t \in PolicyPoints, e \in {-1, 0, 1}}

InitPolicy ==
    /\ disk = Absent
    /\ fs = [p \in Paths |-> File(TRUE, <<1>>)]
    /\ clock = 0
    /\ pc = "idle"
    /\ data = NoData
    /\ sv = NoSave
    /\ rr = NoFrame
    /\ \E th \in [1..4 -> PolicyPoints], total \in PolicyTotals :
           last = [op |-> "input", total |-> total, th |-> th]
    /\ acked = NoBatch

\* The if/elif chain of quick_rerate on one total.
RateTotal ==
    /\ last.op = "input"
    /\ last' = [op |-> "rated", total |-> last.total, th |-> last.th,
                rating |-> RerateRating(last.total, last.th)]
    /\ UNCHANGED <<disk, fs, clock, pc, data, sv, rr, acked>>

SpecPolicy == InitPolicy /\ [][RateTotal]_vars

\* ------------------------------------------------- migration on load, alone
\* Entries of a legacy files list: a scored photograph, the same photograph
\* listed again with another rating, a photograph without scores, an entry
\* without a filename, and an entry that is no JSON object.
LegacyEntries ==
    { LegacyEntryA,
      [filename |-> "a.jpg", rating |-> 1],
      [filename |-> "b.jpg", scores |-> [quality |-> 6000]],
      [rating |-> 2],
      NonDict }

\* The optional fields of a legacy document, each present or not.
LegacyExtras ==
    { [k \in K |-> CASE k = "created" -> 0
                     [] k = "status" -> "in_progress"
                     [] k = "settings" -> [thresholds |-> <<85, 80, 75, 70>>,
                                           quality_weight |-> 5]
                     [] k = "statistics" -> [total |-> 5]] :
        K \in SUBSET {"created", "status", "settings", "statistics"} }

MigrationDocs ==
    { [kind |-> "legacy", body |-> Merge(x, [files |-> l])] :
        x \in LegacyExtras,
        l \in UNION { [1..k -> LegacyEntries] : k \in 0..MaxEntries } }

InitMigrate ==
    /\ disk \in MigrationDocs
    /\ fs = [p \in Paths |-> File(TRUE, <<1>>)]
    /\ clock = 0
    /\ pc = "idle"
    /\ data = NoData
    /\ sv = NoSave
    /\ rr = NoFrame
    /\ last = [op |-> "none"]
    /\ acked = NoBatch

NextMigrate ==
    \/ Tick
    \/ Kill
    \/ Construct
    \/ Load
    \/ FinishSave

SpecMigrate == InitMigrate /\ [][NextMigrate]_vars

\* ------------------------------------------- every operation of the ledger
\* A mapping-shaped document that was not written by this program's save():
\* it lists a.jpg while its processed_files says 0.
StaleCountDoc ==
    Dump([add_file_result(init_new_manifest(0), "a.jpg", PathOf("a.jpg"),
                          File(TRUE, <<1>>), 80000, 70000, 740000, 3, 0)
            EXCEPT !.processed_files = 0, !.status = "completed"])

\* update_file_rating(filename, new_rating) by the caller.
UpdateFileRating ==
    /\ pc = "idle" /\ data # NoData
    /\ \E n \in RatedByHand, r \in ManualRatings :
        /\ data' = update_file_rating(data, n, r, clock)
        /\ last' = [op |-> "update_file_rating", filename |-> n, rating |-> r,
                    now |-> clock, before |-> data,
                    returned |-> update_file_rating_returned(data, n)]
    /\ UNCHANGED <<disk, fs, clock, pc, sv, rr, acked>>

InitLedger ==
    /\ disk \in InitialDocs \cup {StaleCountDoc}
    /\ fs = [p \in Paths |-> File(TRUE, <<1>>)]
    /\ clock = 0
    /\ pc = "idle"
    /\ data = NoData
    /\ sv = NoSave
    /\ rr = NoFrame
    /\ last = [op |-> "none"]
    /\ acked = NoBatch

NextLedger ==
    \/ Kill
    \/ Construct
    \/ Load
    \/ Delete
    \/ Save
    \/ FinishSave
    \/ start_processing
    \/ complete_processing
    \/ AddFileResult
    \/ UpdateFileRating

SpecLedger == InitLedger /\ [][NextLedger]_vars

\* ------------------------------------------------ update_file_rating, alone
InitUpdate ==
    /\ disk = Absent
    /\ fs = [p \in Paths |-> File(TRUE, <<1>>)]
    /\ clock = 0
    /\ pc = "idle"
    /\ data \in BatchLedgers \cup CuratedLedgers
    /\ sv = NoSave
    /\ rr = NoFrame
    /\ last = [op |-> "none"]
    /\ acked = NoBatch

NextUpdate ==
    \/ Tick
    \/ UpdateFileRating

SpecUpdate == InitUpdate /\ [][NextUpdate]_vars

\* ------------------------------------------------------------ restore_files
\* In this part fs is the tree under the managed directory: it maps each
\* existing path to what is there.  <<D, n>> is a top-level entry,
\* <<D, b, n>> an entry of the star folder b; a regular file is a File, a
\* directory is Dir, a directory that cannot be listed is SealedDir.
Dir == [dir |-> "listable"]

SealedDir == [dir |-> "sealed"]

IsFile(e) == "blocks" \in DOMAIN e

\* star_dirs = ["0星", ..., "5星"], written here in ASCII.
star_dirs == <<"0-star", "1-star", "2-star", "3-star", "4-star", "5-star">>

InPath(star_dir_name, name) == <<ManagedDir, star_dir_name, name>>

Remove(tree, p) == [q \in (DOMAIN tree) \ {p} |-> tree[q]]

\* The names star_dir.iterdir() yields.
Listing(tree, star_dir_name) ==
    {q[3] : q \in {r \in DOMAIN tree : Len(r) = 3 /\ r[2] = star_dir_name}}

\* What shutil.move can do when the destination does not exist: rename (or
\* copy and unlink) the file; fail and change nothing; or, across file
\* systems, copy the file and fail to unlink the source.
MoveOutcomes == {"moved", "failed", "copied"}

\* A restore that moves a file over an existing top-level entry.
RestoreOneOverwriting(tree, result, star_dir_name, name, outcome) ==
    LET file_path == InPath(star_dir_name, name)
        dest_path == PathOf(name)
    IN  IF ~IsFile(tree[file_path]) THEN [tree |-> tree, result |-> result]
        ELSE [tree |-> Put(Remove(tree, file_path), dest_path, tree[file_path]),
              result |-> [result EXCEPT !.moved = @ + 1]]

\* A restore that does not count the moves that fail.
RestoreOneUncounted(tree, result, star_dir_name, name, outcome) ==
    LET file_path == InPath(star_dir_name, name)
        dest_path == PathOf(name)
    IN  IF ~IsFile(tree[file_path]) THEN [tree |-> tree, result |-> result]
        ELSE IF dest_path \in DOMAIN tree
        THEN [tree |-> tree, result |-> [result EXCEPT !.already_in_place = @ + 1]]
        ELSE IF outcome = "moved"
        THEN [tree |-> Put(Remove(tree, file_path), dest_path, tree[file_path]),
              result |-> [result EXCEPT !.moved = @ + 1]]
        ELSE [tree |-> tree, result |-> result]

\* The body of the inner loop of restore_files for one entry of a star
\* folder; outcome is what shutil.move does if it is called.
RestoreOne(tree, result, star_dir_name, name, outcome) ==
    LET file_path == InPath(star_dir_name, name)
        dest_path == PathOf(name)
    IN  IF ~IsFile(tree[file_path]) THEN [tree |-> tree, result |-> result]
        ELSE IF dest_path \in DOMAIN tree
        THEN [tree |-> tree, result |-> [result EXCEPT !.already_in_place = @ + 1]]
        ELSE IF outcome = "moved"
        THEN [tree |-> Put(Remove(tree, file_path), dest_path, tree[file_path]),
              result |-> [result EXCEPT !.moved = @ + 1]]
        ELSE IF outcome = "copied"
        THEN [tree |-> Put(tree, dest_path, tree[file_path]),
              result |-> [result EXCEPT !.failed = @ + 1]]
        ELSE [tree |-> tree, result |-> [result EXCEPT !.failed = @ + 1]]

\* The inner loop over the listing names[j..] of one star folder.
RECURSIVE RestoreEntries(_, _, _, _, _)
RestoreEntries(acc, star_dir_name, names, j, outcomes) ==
    IF j > Len(names) THEN acc
    ELSE RestoreEntries(
             RestoreOne(acc.tree, acc.result, star_dir_name, names[j],
                        outcomes[<<star_dir_name, names[j]>>]),
             star_dir_name, names, j + 1, outcomes)

\* The first loop of restore_files over star_dirs[i..]; listing a sealed
\* folder raises PermissionError out of restore_files.
RECURSIVE RestoreDirs(_, _, _)
RestoreDirs(acc, i, outcomes) ==
    IF i > Len(star_dirs) THEN [tree |-> acc.tree, result |-> acc.result, raised |-> "none"]
    ELSE IF PathOf(star_dirs[i]) \notin DOMAIN acc.tree THEN RestoreDirs(acc, i + 1, outcomes)
    ELSE IF IsFile(acc.tree[PathOf(star_dirs[i])]) THEN RestoreDirs(acc, i + 1, outcomes)
    ELSE IF acc.tree[PathOf(star_dirs[i])] = SealedDir
    THEN [tree |-> acc.tree, result |-> acc.result, raised |-> "PermissionError"]
    ELSE RestoreDirs(
             RestoreEntries(acc, star_dirs[i], Items(Listing(acc.tree, star_dirs[i])),
                            1, outcomes),
             i + 1, outcomes)

\* A second loop that removes every star folder, empty or not.
RemoveAllDirs(tree, i, unremovable) ==
    [q \in {r \in DOMAIN tree : r \notin {PathOf(star_dirs[k]) : k \in 1..Len(star_dirs)}}
        |-> tree[q]]

\* The second loop of restore_files over star_dirs[i..]: an empty star
\* folder is removed; unremovable are the folders whose rmdir (or listing)
\* raises, which is ignored.
RECURSIVE RemoveEmptyDirs(_, _, _)
RemoveEmptyDirs(tree, i, unremovable) ==
    IF i > Len(star_dirs) THEN tree
    ELSE RemoveEmptyDirs(
             IF /\ PathOf(star_dirs[i]) \in DOMAIN tree
                /\ tree[PathOf(star_dirs[i])] = Dir
                /\ Listing(tree, star_dirs[i]) = {}
                /\ star_dirs[i] \notin unremovable
             THEN Remove(tree, PathOf(star_dirs[i])) ELSE tree,
             i + 1, unremovable)

\* restore_files(): the tree afterwards, the counts, and the exception that
\* leaves it ("none" when it returns).
restore_files(tree, outcomes, unremovable) ==
    LET r == RestoreDirs([tree |-> tree,
                          result |-> [moved |-> 0, failed |-> 0, already_in_place |-> 0]],
                         1, outcomes)
    IN  IF r.raised # "none" THEN r
        ELSE [tree |-> RemoveEmptyDirs(r.tree, 1, unremovable),
              result |-> r.result, raised |-> "none"]

\* The star folders and the names that the sample trees use.
SampleStarDirs == {"0-star", "3-star"}

SampleNames == {"x.jpg", "y.jpg"}

\* A star folder is absent, a regular file of that name, a sealed
\* directory, or a directory with some of the sample files and perhaps a
\* subdirectory.
StarDirShapes ==
    {[kind |-> "absent"], [kind |-> "file"], [kind |-> "sealed"]}
    \cup {[kind |-> "dir", files |-> S, sub |-> b] : S \in SUBSET SampleNames, b \in BOOLEAN}

\* File contents that tell where a file was at the start: 1 at the top
\* level, 2 and 5 in the sample star folders.
StartContent(star_dir_name) ==
    IF star_dir_name = "" THEN <<1>> ELSE IF star_dir_name = "0-star" THEN <<2>> ELSE <<5>>

\* The tree with the top-level files top and the star folders shaped by shape.
TreeOf(top, shape) ==
    LET paths ==
            {PathOf(n) : n \in top}
            \cup {PathOf(b) : b \in {c \in SampleStarDirs : shape[c].kind # "absent"}}
            \cup UNION { {InPath(b, n) : n \in shape[b].files}
                         \cup (IF shape[b].sub THEN {InPath(b, "sub")} ELSE {}) :
                           b \in {c \in SampleStarDirs : shape[c].kind = "dir"} }
    IN  [p \in paths |->
            IF Len(p) = 3 THEN (IF p[3] = "sub" THEN Dir ELSE File(TRUE, StartContent(p[2])))
            ELSE IF p[2] \in SampleStarDirs
                 THEN (CASE shape[p[2]].kind = "file" -> File(TRUE, StartContent(""))
                         [] shape[p[2]].kind = "sealed" -> SealedDir
                         [] OTHER -> Dir)
                 ELSE File(TRUE, StartContent(""))]

\* The regular files of the star folders, as <<folder, name>>.
StarFiles(tree) ==
    {<<q[2], q[3]>> : q \in {r \in DOMAIN tree : Len(r) = 3 /\ IsFile(tree[r])}}

InitRestore ==
    /\ disk = Absent
    /\ \E top \in SUBSET SampleNames, shape \in [SampleStarDirs -> StarDirShapes] :
           fs = TreeOf(top, shape)
    /\ clock = 0
    /\ pc = "idle"
    /\ data = init_new_manifest(0)
    /\ sv = NoSave
    /\ rr = NoFrame
    /\ last = [op |-> "none"]
    /\ acked = NoBatch

\* restore_files(), called once on the tree the behaviour starts with.
RestoreFiles ==
    /\ pc = "idle" /\ data # NoData
    /\ last.op = "none"
    /\ \E outcomes \in [StarFiles(fs) -> MoveOutcomes],
          unremovable \in SUBSET {b \in SampleStarDirs : PathOf(b) \in DOMAIN fs
                                                            /\ fs[PathOf(b)] = Dir} :
        LET r == restore_files(fs, outcomes, unremovable)
        IN  /\ fs' = r.tree
            /\ last' = [op |-> "restore_files", result |-> r.result,
                        raised |-> r.raised, fs0 |-> fs,
                        unremovable |-> unremovable]
    /\ UNCHANGED <<disk, clock, pc, data, sv, rr, acked>>

SpecRestore == InitRestore /\ [][RestoreFiles]_vars

\* ---------------------------------------------------- calculate_file_hash, alone
\* The values a 32 KiB block takes.
BlockValues == {1, 2}

\* Photographs of 0 to MaxBlocks blocks.
SizedContents == UNION { [1..k -> BlockValues] : k \in 0..MaxBlocks }

InitFingerprint ==
    /\ disk = Absent
    /\ fs = [p \in Paths |-> File(TRUE, <<1>>)]
    /\ clock = 0
    /\ pc = "idle"
    /\ data = NoData
    /\ sv = NoSave
    /\ rr = NoFrame
    /\ \E f \in SizedContents, g \in SizedContents :
           last = [op |-> "input", f |-> f, g |-> g]
    /\ acked = NoBatch

\* calculate_file_hash on a photograph f, on f again, and on a photograph g.
Fingerprint ==
    /\ last.op = "input"
    /\ last' = [op |-> "calculate_file_hash", f |-> last.f, g |-> last.g,
                hash |-> calculate_file_hash(File(TRUE, last.f)),
                again |-> calculate_file_hash(File(TRUE, last.f)),
                other |-> calculate_file_hash(File(TRUE, last.g))]
    /\ UNCHANGED <<disk, fs, clock, pc, data, sv, rr, acked>>

SpecFingerprint == InitFingerprint /\ [][Fingerprint]_vars

\* ------------------------------------------------- set_config and quick_rerate
\* Threshold tuples a caller can pass: those of ThresholdInputs and one that
\* is not descending.
ThresholdCalls == ThresholdInputs \cup {<<72, 78, 66, 58>>}

\* set_config(thresholds, quality_weight, aesthetic_weight) on a manager the
\* caller holds.
SetConfig ==
    /\ pc = "idle" /\ data # NoData
    /\ \E th \in ThresholdCalls, w \in WeightInputs :
        /\ data' = set_config(data, th, w[1], w[2])
        /\ last' = [op |-> "set_config", th |-> th]
    /\ UNCHANGED <<disk, fs, clock, pc, sv, rr, acked>>

\* quick_rerate with any of the threshold tuples of ThresholdCalls.
QuickRerateAny == QuickRerateWith(ThresholdCalls)

\* A manager open on the saved ledger of a batch that scored every photograph.
InitConfig ==
    /\ data \in {b \in BatchLedgers : DOMAIN b.files = Names}
    /\ disk = Dump(data)
    /\ fs = [p \in Paths |-> File(TRUE, <<1>>)]
    /\ clock = 0
    /\ pc = "idle"
    /\ sv = NoSave
    /\ rr = NoFrame
    /\ last = [op |-> "none"]
    /\ acked = NoBatch

NextConfig ==
    \/ SetConfig
    \/ QuickRerateAny
    \/ QuickRerateReturn

SpecConfig == InitConfig /\ [][NextConfig]_vars

\* ------------------------------------------- two managers on one directory
\* A second ManifestManager on the same directory, held by another process:
\* in this specification rr is that manager: rr.data is its self.data,
\* rr.phase its position ("none": not constructed, "held", "saving") and
\* rr.disk0 the document it found when its last save() began.
\* The document holds no legacy list, so the constructor saves nothing.
ConstructOther ==
    /\ rr.phase = "none"
    /\ disk.kind # "legacy"
    /\ \E io \in IoOutcomes :
        LET c == construct(disk, io, clock)
        IN  /\ io = "IOError" => disk.kind # "absent"
            /\ c.raised = "none"
            /\ rr' = [NoFrame EXCEPT !.phase = "held", !.loaded = c.data,
                                     !.data = c.data]
    /\ last' = [op |-> "construct_other"]
    /\ UNCHANGED <<disk, fs, clock, pc, data, sv, acked>>

\* save() of the second manager up to open(self.manifest_path, "w").
SaveOther ==
    /\ rr.phase = "held"
    /\ \E io \in IoOutcomes :
        LET d2 == [rr.data EXCEPT !.updated_at = clock]
        IN  IF io = "ok"
            THEN /\ disk' = Torn
                 /\ rr' = [rr EXCEPT !.phase = "saving", !.data = d2, !.disk0 = disk]
                 /\ last' = [op |-> "save_other"]
            ELSE /\ disk' = disk
                 /\ rr' = [rr EXCEPT !.data = d2, !.disk0 = disk, !.saved = io]
                 /\ last' = [op |-> "save_other_end", io |-> io]
    /\ UNCHANGED <<fs, clock, pc, data, sv, acked>>

\* A save() that keeps the records of the document it replaces.
FinishSaveOtherMerging ==
    /\ rr.phase = "saving"
    /\ \E io \in IoOutcomes :
        LET kept == Get(Get(rr.disk0, "body", <<>>), "files", NoFiles)
            files == [n \in DOMAIN kept \cup DOMAIN rr.data.files |->
                         IF n \in DOMAIN rr.data.files THEN rr.data.files[n] ELSE kept[n]]
        IN  /\ disk' = IF io = "ok" THEN Dump([rr.data EXCEPT !.files = files]) ELSE Torn
            /\ rr' = [rr EXCEPT !.phase = "held", !.saved = io]
            /\ last' = [op |-> "save_other_end", io |-> io]
    /\ UNCHANGED <<fs, clock, pc, data, sv, acked>>

\* json.dump and the close of the file in the second manager's save().
FinishSaveOther ==
    /\ rr.phase = "saving"
    /\ \E io \in IoOutcomes :
        /\ disk' = IF io = "ok" THEN Dump(rr.data) ELSE Torn
        /\ rr' = [rr EXCEPT !.phase = "held", !.saved = io]
        /\ last' = [op |-> "save_other_end", io |-> io]
    /\ UNCHANGED <<fs, clock, pc, data, sv, acked>>

InitShared ==
    /\ disk \in {Absent} \cup {Dump(b) : b \in {c \in BatchLedgers : DOMAIN c.files # Names}}
    /\ fs = [p \in Paths |-> File(TRUE, <<1>>)]
    /\ clock = 0
    /\ pc = "idle"
    /\ data = NoData
    /\ sv = NoSave
    /\ rr = NoFrame
    /\ last = [op |-> "none"]
    /\ acked = NoBatch

NextShared ==
    \/ Construct
    \/ AddFileResult
    \/ Save
    \/ FinishSave
    \/ ConstructOther
    \/ SaveOther
    \/ FinishSaveOther

SpecShared == InitShared /\ [][NextShared]_vars

\* ================================================================== claims

\* ---------------------------------------------------------------------- C1
\* C1: save() is atomic with respect to crashes: when the process is killed
\* inside save(), the persisted document is afterwards the complete document
\* of before the save or the complete new one, never a cut-off one.
C1_SaveIsAtomic ==
    (last.op = "kill" /\ last.during = "saving") => disk \in {sv.prev, sv.new}

\* ---------------------------------------------------------------------- C2
\* The paths of the managed directory, as the directory lister gives them.
AllFiles == Items(Paths)

\* The range of a sequence.
Range(q) == {q[i] : i \in 1..Len(q)}

\* C2: resumability: at the restart after a kill, every record whose
\* add_file_result had returned in the interrupted batch (its photograph
\* unchanged since) is in the newly constructed ledger as it was written,
\* and its photograph is not among the pending files.
C2_ResumeKeepsAcked ==
    [][(last.op = "kill" /\ last'.op = "construct" /\ data' # NoData) =>
        \A n \in DOMAIN acked.recs :
            /\ n \in DOMAIN data'.files
            /\ data'.files[n] = acked.recs[n]
            /\ PathOf(n) \notin Range(get_pending_files(data', AllFiles, fs'))]_vars

\* ---------------------------------------------------------------------- C3
\* C3: get_pending_files returns, in the order given, exactly the paths
\* whose basename is not in files, or whose stored fingerprint is empty, or
\* whose fresh fingerprint differs from the stored one.
C3_PendingExactly ==
    last.op = "get_pending_files" =>
        LET IsPending(path) ==
                \/ Basename(path) \notin DOMAIN data.files
                \/ data.files[Basename(path)].hash = NoHash
                \/ calculate_file_hash(fs[path]) # data.files[Basename(path)].hash
        IN  last.result = SelectSeq(last.all_files, IsPending)

\* An unreadable photograph whose record has an empty fingerprint is pending,
\* next to one that is skipped.
C3_Witness ==
    /\ last.op = "get_pending_files"
    /\ Len(last.all_files) = 2 /\ Len(last.result) = 1
    /\ LET p == last.result[1]
       IN  /\ ~fs[p].readable
           /\ Basename(p) \in DOMAIN data.files
           /\ data.files[Basename(p)].hash = NoHash

\* ---------------------------------------------------------------------- C4
RerateErrors == {"ValueError", "AttributeError", "UnicodeDecodeError"}

\* quick_rerate has ended on a ledger that is not completed, or on a
\* document that gave no ledger.
RerateOnIncomplete ==
    /\ rr.phase = "done" /\ rr.outcome # "killed"
    /\ rr.loaded = NoData \/ Status(rr.loaded) # "completed"

\* C4 as stated: quick_rerate on a ledger that is not completed fails with an
\* error and leaves the ledger and every byte of the document as they were.
C4_RejectedChangesNothing ==
    RerateOnIncomplete =>
        /\ rr.outcome \in RerateErrors
        /\ rr.data = rr.loaded
        /\ disk = rr.disk0

\* C4 amended: the rejected call changes no rating and no config value of
\* the ledger it loaded, and leaves the document as it was unless the
\* document was list-shaped: that one the load has migrated and saved.
C4_RejectedChangesOnlyLegacy ==
    RerateOnIncomplete =>
        /\ rr.outcome \in RerateErrors
        /\ rr.data = rr.loaded
        /\ \/ disk = rr.disk0
           \/ rr.disk0.kind = "legacy" /\ disk \in {Dump(rr.loaded), Torn}

\* A list-shaped document of an interrupted batch, rejected after its migration.
C4_Witness ==
    /\ rr.phase = "done" /\ rr.outcome = "ValueError"
    /\ rr.disk0.kind = "legacy"
    /\ disk = Dump(rr.loaded)

\* ---------------------------------------------------------------------- C5
\* The largest k in {4,3,2,1} with total >= t_k, and 0 when there is none
\* (t_4 is th[1], ..., t_1 is th[4]; total in thousandths).
HighestBucket(total, th) ==
    LET ks == {k \in 1..4 : total >= th[5 - k] * 1000}
    IN  IF ks = {} THEN 0 ELSE CHOOSE k \in ks : \A j \in ks : j <= k

\* C5: the rating quick_rerate computes is the highest bucket whose threshold
\* the total reaches, whatever the order of the thresholds; a total equal to
\* a threshold is rated at least that threshold's bucket.
C5_RatingIsHighestBucket ==
    last.op = "rated" =>
        /\ last.rating = HighestBucket(last.total, last.th)
        /\ \A k \in 1..4 : last.total = last.th[5 - k] * 1000 => last.rating >= k

\* A total equal to t3 under descending thresholds, rated 3.
C5_Witness ==
    /\ last.op = "rated"
    /\ last.th = <<80, 70, 60, 60>>
    /\ last.total = 70000
    /\ last.rating = 3

\* ---------------------------------------------------------------------- C6
\* Every stored total is quality * quality_weight + aesthetic *
\* aesthetic_weight under the ledger's own config (stored values are
\* hundredths, the weighted sum thousandths).
TotalsDerivable(d) ==
    \A n \in DOMAIN d.files :
        d.files[n].total * 10 =
            d.files[n].quality * d.config.quality_weight
            + d.files[n].aesthetic * d.config.aesthetic_weight

\* C6: in every ledger that add_file_result, update_file_rating and
\* quick_rerate produce, each stored total is re-derivable from the stored
\* scores and the current weights.
C6_TotalDerivable ==
    /\ disk.kind = "mapping" => TotalsDerivable(disk.body)
    /\ rr.outcome = "returned" => TotalsDerivable(rr.data)

\* ---------------------------------------------------------------------- C7
\* What a returned quick_rerate reports and leaves in its ledger.
RerateReport ==
    /\ Len(rr.results) = Cardinality(DOMAIN rr.loaded.files)
    /\ {rr.results[i].filename : i \in 1..Len(rr.results)} = DOMAIN rr.loaded.files
    /\ \A i \in 1..Len(rr.results) :
        LET e == rr.results[i]
            old == rr.loaded.files[e.filename]
            total == old.quality * rr.qw + old.aesthetic * rr.aw
        IN  /\ e.old_rating = old.rating
            /\ e.new_rating = HighestBucket(total, rr.th)
            /\ e.changed <=> (e.old_rating # e.new_rating)
            /\ rr.data.files[e.filename].rating = e.new_rating
    /\ DOMAIN rr.data.files = DOMAIN rr.loaded.files
    /\ rr.data.config = [thresholds |-> rr.th, quality_weight |-> rr.qw,
                         aesthetic_weight |-> rr.aw]

C8_Case ==
    /\ rr.outcome = "returned"
    /\ rr.th = <<85, 80, 75, 70>> /\ rr.qw = 4 /\ rr.aw = 6
    /\ rr.loaded.config = DefaultConfig
    /\ "a.jpg" \in DOMAIN rr.loaded.files
    /\ rr.loaded.files["a.jpg"].quality = 8000
    /\ rr.loaded.files["a.jpg"].aesthetic = 7000
    /\ rr.loaded.files["a.jpg"].rating = 3

\* The entry of a.jpg has total 74, the given new rating and changed = true,
\* and the ledger holds that rating.
C8_Entry(new_rating) ==
    \E i \in 1..Len(rr.results) :
        /\ rr.results[i].filename = "a.jpg"
        /\ rr.results[i].total = 7400
        /\ rr.results[i].old_rating = 3
        /\ rr.results[i].new_rating = new_rating
        /\ rr.results[i].changed
        /\ rr.data.files["a.jpg"].rating = new_rating

\* C8 as stated: the record is re-rated 2.
C8_ReratedTwo == C8_Case => C8_Entry(2)

\* C8 amended: total 74 reaches only the 1-star threshold 70 of
\* (85,80,75,70): the record is re-rated 1, with changed = true.
C8_ReratedOne == C8_Case => C8_Entry(1)

C8_Witness == C8_Case /\ rr.saved = "ok"

\* ---------------------------------------------------------------------- C9
\* The step is an add_file_result that repeats the call before it.
RepeatedAdd ==
    /\ last.op = "add_file_result" /\ last'.op = "add_file_result"
    /\ last'.repeat
    /\ clock' = clock /\ fs' = fs

\* C9 as stated: a repeated add_file_result leaves processed_files and the
\* whole stored record, processed_at included, as the first call left them.
C9_UpsertIdempotentAll ==
    [][RepeatedAdd =>
        /\ data'.processed_files = data.processed_files
        /\ data'.files[last.filename] = data.files[last.filename]]_vars

\* C9 amended: a repeated add_file_result leaves processed_files, the key set
\* and every field of the record but processed_at as the first call left
\* them; processed_at becomes the time of the second call.
C9_UpsertIdempotentButTime ==
    [][RepeatedAdd =>
        /\ data'.processed_files = data.processed_files
        /\ DOMAIN data'.files = DOMAIN data.files
        /\ [data'.files[last.filename] EXCEPT !.processed_at = 0]
             = [data.files[last.filename] EXCEPT !.processed_at = 0]
        /\ data'.files[last.filename].processed_at = clock
        /\ \A n \in (DOMAIN data.files) \ {last.filename} :
               data'.files[n] = data.files[n]]_vars

\* A repeated call made after the clock moved on.
C9_Witness ==
    /\ last.op = "add_file_result" /\ last.repeat
    /\ data # NoData
    /\ last.before = 0
    /\ data.files[last.filename].processed_at = 1
    /\ data.processed_files = 1

\* --------------------------------------------------------------------- C10
\* A document that is unreadable or has not the expected shape.
Corrupt(doc) ==
    \/ doc.kind = "bad"
    \/ doc.kind = "legacy" /\ \E i \in 1..Len(doc.body.files) : ~IsDict(doc.body.files[i])

\* C10: constructing the ledger over an unreadable or corrupt document
\* raises nothing and yields a fresh empty ledger.
C10_CorruptGivesFresh ==
    (last.op = "construct" /\ (last.io = "IOError" \/ Corrupt(last.doc))) =>
        /\ last.raised = "none"
        /\ data # NoData
        /\ Status(data) = "new"
        /\ data.files = NoFiles
        /\ data.processed_files = 0

\* --------------------------------------------------------------------- C11
\* A save() has just ended (its open failed, or its write ended).
SaveEnded ==
    /\ pc = "idle"
    /\ last.op \in {"save_end", "save", "start_processing", "complete_processing"}

MigratedNow ==
    /\ last.op = "construct" /\ last.io = "ok"
    /\ last.doc.kind = "legacy"
    /\ \A i \in 1..Len(last.doc.body.files) : IsDict(last.doc.body.files[i])

\* The constructor that read a legacy document has returned.
MigrationReturned ==
    \/ MigratedNow /\ pc = "idle"
    \/ last.op = "save_end" /\ last.of = "construct"

\* The record that a legacy entry e of a document created at t becomes.
RecordOfEntry(e, t) ==
    [hash |-> NoHash,
     quality |-> Get(Get(e, "scores", <<>>), "quality", 0),
     aesthetic |-> Get(Get(e, "scores", <<>>), "aesthetic", 0),
     total |-> Get(Get(e, "scores", <<>>), "total", 0),
     rating |-> Get(e, "rating", 0),
     processed_at |-> t]

\* The ledger holds, under each non-empty filename of the legacy list l, the
\* record of the last entry of that name.
KeyedByFilename(l, t) ==
    /\ DOMAIN data.files = {Get(l[i], "filename", "") : i \in 1..Len(l)} \ {""}
    /\ \A i \in 1..Len(l) :
        LET n == Get(l[i], "filename", "")
        IN  (n # "" /\ \A j \in (i + 1)..Len(l) : Get(l[j], "filename", "") # n)
                => data.files[n] = RecordOfEntry(l[i], t)

\* status, config and total_files as the legacy body b gives them, or the
\* defaults.
Backfilled(b) ==
    /\ Status(data) = Get(b, "status", "completed")
    /\ data.config.thresholds = Get(Get(b, "settings", <<>>), "thresholds", <<78, 72, 66, 58>>)
    /\ data.config.quality_weight = Get(Get(b, "settings", <<>>), "quality_weight", 4)
    /\ data.config.aesthetic_weight = Get(Get(b, "settings", <<>>), "aesthetic_weight", 6)
    /\ data.total_files = Get(Get(b, "statistics", <<>>), "total", data.processed_files)

Counted(d) == d.processed_files = Cardinality(DOMAIN d.files)

\* C13: processed_files == count(files) in the ledger a manager holds, in
\* every state, right after loading a mapping-shaped document included.
C13_ProcessedIsCount ==
    /\ data # NoData => Counted(data)
    /\ rr.data # NoData => Counted(rr.data)

\* --------------------------------------------------------------------- C14
\* C14: complete_processing takes the status to completed only when
\* get_pending_files over the files of the directory is empty.
C14_CompletedOnlyWhenNonePending ==
    [][(last'.op = "complete_processing" /\ Status(data') = "completed") =>
        get_pending_files(data', AllFiles, fs') = <<>>]_vars

\* --------------------------------------------------------------------- C15
\* C15: a batch killed after start_processing was called and before
\* complete_processing is called leaves a document from which the next run
\* reads the status in_progress.
C15_KilledBatchIsInProgress ==
    [][(last.op = "kill" /\ acked.on /\ last'.op = "construct") =>
        (last'.raised = "none" /\ Status(data') = "in_progress")]_vars

\* --------------------------------------------------------------------- C16
\* C16: after delete() has returned, in whatever state it was called, no
\* document is persisted and the ledger is empty: status new, no records,
\* processed_files 0.
C16_DeleteResets ==
    (last.op = "delete" /\ last.raised = "none") =>
        /\ disk = Absent
        /\ Status(data) = "new"
        /\ data.files = NoFiles
        /\ data.processed_files = 0

\* --------------------------------------------------------------------- C17
\* update_file_rating has just been called for a filename the ledger held.
UpdatedExisting ==
    /\ last.op = "update_file_rating"
    /\ last.filename \in DOMAIN last.before.files

\* C17: update_file_rating on an existing record changes that record's
\* rating and processed_at and nothing else: not its other fields, not
\* another record, the key set, processed_files, config or status.
C17_UpdateTouchesRatingOnly ==
    UpdatedExisting =>
        LET n == last.filename
        IN  /\ DOMAIN data.files = DOMAIN last.before.files
            /\ \A k \in (DOMAIN data.files) \ {n} : data.files[k] = last.before.files[k]
            /\ data.files[n].rating = last.rating
            /\ data.files[n].processed_at = last.now
            /\ [data.files[n] EXCEPT !.rating = 0, !.processed_at = 0]
                 = [last.before.files[n] EXCEPT !.rating = 0, !.processed_at = 0]
            /\ [data EXCEPT !.files = NoFiles] = [last.before EXCEPT !.files = NoFiles]

\* A record rated 3 at time 0 is rated 5 at time 1, next to another record.
C17_Witness ==
    /\ UpdatedExisting
    /\ last.before.files[last.filename].rating = 3
    /\ last.before.files[last.filename].processed_at = 0
    /\ data.files[last.filename].rating = 5
    /\ data.files[last.filename].processed_at = 1
    /\ Cardinality(DOMAIN data.files) = 2

\* --------------------------------------------------------------------- C18
\* C18: update_file_rating for a filename the ledger does not hold leaves
\* the ledger as it was and gives the caller something else than a
\* successful update gives.
C18_MissingIsReported ==
    (last.op = "update_file_rating" /\ last.filename \notin DOMAIN last.before.files) =>
        /\ data = last.before
        /\ LET held == [last.before EXCEPT
                            !.files = Put(@, last.filename, [rating |-> 0, processed_at |-> 0])]
           IN  last.returned # update_file_rating_returned(held, last.filename)

\* --------------------------------------------------------------------- C19
\* The place of a star folder in star_dirs.
StarIndex(star_dir_name) == CHOOSE i \in 1..Len(star_dirs) : star_dirs[i] = star_dir_name

\* The star files of the start that restore_files found in place: the name
\* was at the top level at the start, or the top level now holds the file
\* of that name from an earlier star folder.
InPlace ==
    {f \in StarFiles(last.fs0) :
        \/ PathOf(f[2]) \in DOMAIN last.fs0
        \/ /\ PathOf(f[2]) \in DOMAIN fs
           /\ \E g \in StarFiles(last.fs0) :
                /\ g[2] = f[2] /\ StarIndex(g[1]) < StarIndex(f[1])
                /\ fs[PathOf(f[2])] = last.fs0[InPath(g[1], g[2])]}

\* C19: restore_files leaves every top-level file of the start where and as
\* it was, leaves every star-folder file whose name was at the top level
\* where and as it was, and counts those files as already_in_place.
C19_RestoreNeverOverwrites ==
    last.op = "restore_files" =>
        /\ \A p \in DOMAIN last.fs0 :
              (Len(p) = 2 /\ IsFile(last.fs0[p])) => (p \in DOMAIN fs /\ fs[p] = last.fs0[p])
        /\ \A f \in StarFiles(last.fs0) :
              PathOf(f[2]) \in DOMAIN last.fs0 =>
                  /\ InPath(f[1], f[2]) \in DOMAIN fs
                  /\ fs[InPath(f[1], f[2])] = last.fs0[InPath(f[1], f[2])]
        /\ last.raised = "none" => last.result.already_in_place = Cardinality(InPlace)

\* x.jpg is both at the top level and in a star folder, y.jpg only in a star
\* folder: x.jpg stays in both places, y.jpg is moved.
C19_Witness ==
    /\ last.op = "restore_files" /\ last.raised = "none"
    /\ PathOf("x.jpg") \in DOMAIN last.fs0
    /\ InPath("0-star", "x.jpg") \in DOMAIN last.fs0
    /\ InPath("0-star", "x.jpg") \in DOMAIN fs
    /\ InPath("0-star", "y.jpg") \in DOMAIN last.fs0
    /\ InPath("0-star", "y.jpg") \notin DOMAIN fs
    /\ last.result.already_in_place = 1 /\ last.result.moved = 1

\* --------------------------------------------------------------------- C20
\* The star files of the start that are no longer in their star folder.
Gone == {f \in StarFiles(last.fs0) : InPath(f[1], f[2]) \notin DOMAIN fs}

\* C20: when restore_files returns, every regular file that was in a star
\* folder is counted once: moved are the files now at the top level and no
\* longer in their folder, already_in_place those found in place, failed the
\* others, which are still in their folder; a failed move stops nothing.
C20_RestoreCountsEveryFile ==
    (last.op = "restore_files" /\ last.raised = "none") =>
        /\ last.result.moved + last.result.failed + last.result.already_in_place
             = Cardinality(StarFiles(last.fs0))
        /\ last.result.moved = Cardinality(Gone)
        /\ \A f \in Gone :
              /\ PathOf(f[2]) \in DOMAIN fs
              /\ fs[PathOf(f[2])] = last.fs0[InPath(f[1], f[2])]
        /\ last.result.failed = Cardinality((StarFiles(last.fs0) \ Gone) \ InPlace)
        /\ \A f \in StarFiles(last.fs0) \ Gone :
              fs[InPath(f[1], f[2])] = last.fs0[InPath(f[1], f[2])]

\* The move of x.jpg out of the first star folder failed and left it there;
\* y.jpg of the later star folder was moved all the same.
C20_Witness ==
    /\ last.op = "restore_files" /\ last.raised = "none"
    /\ last.result.failed = 1 /\ last.result.moved = 1
    /\ InPath("0-star", "x.jpg") \in DOMAIN fs
    /\ PathOf("x.jpg") \notin DOMAIN fs
    /\ InPath("3-star", "y.jpg") \in DOMAIN last.fs0
    /\ InPath("3-star", "y.jpg") \notin DOMAIN fs
    /\ PathOf("y.jpg") \in DOMAIN fs

\* --------------------------------------------------------------------- C21
\* restore_files has returned; b is a star folder that was a directory.
StarFolders ==
    {star_dirs[i] : i \in {k \in 1..Len(star_dirs) :
                              /\ PathOf(star_dirs[k]) \in DOMAIN last.fs0
                              /\ last.fs0[PathOf(star_dirs[k])] = Dir}}

\* The star folder b still exists with the entries it has, each as it was.
Retained(b) ==
    /\ PathOf(b) \in DOMAIN fs /\ fs[PathOf(b)] = Dir
    /\ \A n \in Listing(fs, b) :
          /\ InPath(b, n) \in DOMAIN last.fs0
          /\ fs[InPath(b, n)] = last.fs0[InPath(b, n)]

\* C21 as stated: when restore_files returns, every star folder that is
\* empty has been deleted and every star folder that still has an entry
\* exists with those entries untouched.
C21_EmptyFoldersDeleted ==
    (last.op = "restore_files" /\ last.raised = "none") =>
        \A b \in StarFolders :
            IF Listing(fs, b) = {} THEN PathOf(b) \notin DOMAIN fs ELSE Retained(b)

\* C21 amended: the same, an empty star folder being deleted unless its
\* rmdir raised, which restore_files ignores: that folder stays, empty.
C21_EmptyFoldersDeletedIfRemovable ==
    (last.op = "restore_files" /\ last.raised = "none") =>
        \A b \in StarFolders :
            IF Listing(fs, b) = {}
            THEN PathOf(b) \notin DOMAIN fs \/ (b \in last.unremovable /\ Retained(b))
            ELSE Retained(b)

\* One star folder was emptied by a move and deleted, the other keeps a
\* subdirectory and stays.
C21_Witness ==
    /\ last.op = "restore_files" /\ last.raised = "none"
    /\ last.result.moved = 1
    /\ PathOf("0-star") \in DOMAIN last.fs0 /\ PathOf("0-star") \notin DOMAIN fs
    /\ InPath("0-star", "x.jpg") \in DOMAIN last.fs0
    /\ InPath("3-star", "sub") \in DOMAIN fs
    /\ PathOf("3-star") \in DOMAIN fs

\* --------------------------------------------------------------------- C22
\* The first and the last 64 KiB of a photograph of more than 64 KiB.
FirstChunk(f) == SubSeq(f, 1, ChunkBlocks)

LastChunk(f) == SubSeq(f, Len(f) - ChunkBlocks + 1, Len(f))

\* The positions at which two photographs of one size differ.
Differ(f, g) == {i \in 1..Len(f) : f[i] # g[i]}

\* The positions within the first or the last 64 KiB.
Edges(f) == {i \in 1..Len(f) : i <= ChunkBlocks \/ i > Len(f) - ChunkBlocks}

\* Hashing twice agrees, a difference within the first or last 64 KiB gives
\* another fingerprint, and large photographs that differ only in the middle
\* get the same one.
Sensitivity ==
    /\ last.again = last.hash
    /\ (Len(last.f) = Len(last.g) /\ Differ(last.f, last.g) \cap Edges(last.f) # {})
          => last.other # last.hash
    /\ (Len(last.f) = Len(last.g) /\ Differ(last.f, last.g) \cap Edges(last.f) = {})
          => last.other = last.hash

Descending(th) == th[1] > th[2] /\ th[2] > th[3] /\ th[3] > th[4]

\* C23: the thresholds of the ledger a manager holds, of the ledger
\* quick_rerate holds and of the persisted document are strictly descending.
C23_ThresholdsDescending ==
    /\ (data # NoData /\ "config" \in DOMAIN data)
          => Descending(data.config.thresholds)
    /\ (rr.phase = "done" /\ rr.outcome = "returned")
          => Descending(rr.data.config.thresholds)
    /\ (disk.kind = "mapping" /\ "config" \in DOMAIN disk.body)
          => Descending(disk.body.config.thresholds)

\* --------------------------------------------------------------------- C24
\* Every record of the ledger d has a rating of 0 to 4.
PolicyRated(d) == \A n \in DOMAIN d.files : d.files[n].rating \in 0..4

\* C24: the scorer rates 0 to 4, and when quick_rerate returns every rating
\* of its ledger is 0 to 4, as is every rating of the persisted document once
\* the final save went through, also for a record that held a 5 before.
C24_PolicyNeverGivesFive ==
    /\ \A s \in OracleScores, w \in WeightInputs, th \in ThresholdInputs :
           score_image(s[1], s[2], w[1], w[2], th).rating \in 0..4
    /\ (rr.phase = "done" /\ rr.outcome = "returned") =>
           /\ PolicyRated(rr.data)
           /\ \A i \in 1..Len(rr.results) : rr.results[i].new_rating \in 0..4
           /\ rr.saved = "ok" => (disk.kind = "mapping" /\ PolicyRated(disk.body))

\* A saved re-rating of a ledger in which a.jpg held five stars.
C24_Witness ==
    /\ rr.phase = "done" /\ rr.outcome = "returned" /\ rr.saved = "ok"
    /\ "a.jpg" \in DOMAIN rr.loaded.files
    /\ rr.loaded.files["a.jpg"].rating = 5
    /\ disk.kind = "mapping" /\ disk.body.files["a.jpg"].rating \in 0..4

\* --------------------------------------------------------------------- C25
\* The entries of a returned quick_rerate whose rating did not change.
Unchanged ==
    {i \in 1..Len(rr.results) : ~rr.results[i].changed}

\* C25 as stated: a record whose rating quick_rerate did not change is as it
\* was loaded, processed_at included.
C25_UnchangedUntouched ==
    (rr.phase = "done" /\ rr.outcome = "returned") =>
        \A i \in Unchanged :
            rr.data.files[rr.results[i].filename]
              = rr.loaded.files[rr.results[i].filename]

\* C25 amended: quick_rerate calls update_file_rating for every record; one
\* whose rating did not change keeps its fields except processed_at, which
\* is the time of the call.
C25_UnchangedRestamped ==
    (rr.phase = "done" /\ rr.outcome = "returned") =>
        \A i \in Unchanged :
            rr.data.files[rr.results[i].filename]
              = [rr.loaded.files[rr.results[i].filename]
                    EXCEPT !.processed_at = rr.data.updated_at]

\* A record scored at time 0 keeps its rating in a quick_rerate at time 1.
C25_Witness ==
    /\ rr.phase = "done" /\ rr.outcome = "returned"
    /\ \E i \in Unchanged :
          /\ rr.loaded.files[rr.results[i].filename].processed_at = 0
          /\ rr.data.files[rr.results[i].filename].processed_at = 1

\* --------------------------------------------------------------------- C26
\* The photographs of the managed directory, as a scan lists them.
Listed == Items(Paths)

\* C26: every record of a freshly migrated ledger has the empty fingerprint,
\* get_pending_files gives every photograph of the directory, and a legacy
\* document without a status gives a completed ledger, which quick_rerate's
\* check accepts.
C26_MigratedAllPending ==
    MigratedNow =>
        /\ \A n \in DOMAIN data.files : data.files[n].hash = NoHash
        /\ get_pending_files(data, Listed, fs) = Listed
        /\ "status" \notin DOMAIN last.doc.body
              => (Status(data) = "completed" /\ is_completed(data))

\* The migration of a list that held a.jpg and b.jpg and no status.
C26_Witness ==
    /\ MigratedNow /\ pc = "saving"
    /\ "status" \notin DOMAIN last.doc.body
    /\ DOMAIN data.files = Names
    /\ is_completed(data)
    /\ Len(get_pending_files(data, Listed, fs)) = Cardinality(Names)

\* --------------------------------------------------------------------- C27
\* quick_rerate has returned, its save written, and the document is as it
\* left it.
FirstRun ==
    /\ rr.phase = "done" /\ rr.outcome = "returned" /\ rr.saved = "ok"
    /\ disk = Dump(rr.data)

\* The step is a quick_rerate with the thresholds and weights of the one
\* before that passes its check and runs its loop.
SecondRun ==
    /\ last'.op = "quick_rerate"
    /\ rr'.phase = "saving" \/ (rr'.phase = "done" /\ rr'.outcome = "returned")
    /\ rr'.disk0 = disk
    /\ rr'.th = rr.th /\ rr'.qw = rr.qw /\ rr'.aw = rr.aw

\* C27: a second quick_rerate with the same thresholds and weights reports
\* every record of the first one's ledger as unchanged and leaves each
\* rating, each total and the config as the first run left them.
C27_RerateIdempotent ==
    [][(FirstRun /\ SecondRun) =>
          /\ Len(rr'.results) = Cardinality(DOMAIN rr.data.files)
          /\ \A i \in 1..Len(rr'.results) : ~rr'.results[i].changed
          /\ DOMAIN rr'.data.files = DOMAIN rr.data.files
          /\ \A n \in DOMAIN rr.data.files :
                /\ rr'.data.files[n].rating = rr.data.files[n].rating
                /\ rr'.data.files[n].total = rr.data.files[n].total
          /\ rr'.data.config = rr.data.config]_vars

\* A second quick_rerate to thresholds (85,80,75,70), which only a first one
\* stores, has returned for a ledger of two records.
C27_Witness ==
    /\ rr.phase = "done" /\ rr.outcome = "returned" /\ rr.saved = "ok"
    /\ rr.th = <<85, 80, 75, 70>>
    /\ rr.disk0.kind = "mapping"
    /\ rr.disk0.body.config = [thresholds |-> rr.th, quality_weight |-> rr.qw,
                               aesthetic_weight |-> rr.aw]
    /\ Len(rr.results) = 2
    /\ \A i \in 1..Len(rr.results) : ~rr.results[i].changed

\* --------------------------------------------------------------------- C28
\* quick_rerate has returned for the saved ledger of a completed batch, with
\* the thresholds and weights the batch scored with.
ReratedAsScored ==
    /\ rr.phase = "done" /\ rr.outcome = "returned"
    /\ rr.loaded \in BatchLedgers
    /\ rr.loaded.config = [thresholds |-> rr.th, quality_weight |-> rr.qw,
                           aesthetic_weight |-> rr.aw]

\* C28: re-rating a freshly scored ledger with the policy it was scored with
\* reports no record as changed: the rating from the stored, rounded scores
\* is the rating the scorer gave from the unrounded ones.
C28_ScorerAndRerateAgree ==
    ReratedAsScored => \A i \in 1..Len(rr.results) : ~rr.results[i].changed

\* --------------------------------------------------------------------- C29
\* Pairs <<f, g>> of star files of the start that share a name which was not
\* at the top level, f in the star folder that comes first in star_dirs.
Twins ==
    {pair \in StarFiles(last.fs0) \X StarFiles(last.fs0) :
        /\ pair[1][2] = pair[2][2]
        /\ StarIndex(pair[1][1]) < StarIndex(pair[2][1])
        /\ PathOf(pair[1][2]) \notin DOMAIN last.fs0}

\* The star file f of the start is where and as it was.
Stays(f) ==
    /\ InPath(f[1], f[2]) \in DOMAIN fs
    /\ fs[InPath(f[1], f[2])] = last.fs0[InPath(f[1], f[2])]

\* The top level holds the star file f of the start under its name.
AtTop(f) ==
    /\ PathOf(f[2]) \in DOMAIN fs
    /\ fs[PathOf(f[2])] = last.fs0[InPath(f[1], f[2])]

\* Every regular file of the start is still where it was, or was in a star
\* folder and is at the top level.
AllKept ==
    \A p \in {q \in DOMAIN last.fs0 : IsFile(last.fs0[q])} :
        \/ p \in DOMAIN fs /\ fs[p] = last.fs0[p]
        \/ Len(p) = 3 /\ AtTop(<<p[2], p[3]>>)

\* C29 as stated: of two star files of one name that is not at the top
\* level, the one of the earlier star folder is moved to the top level and
\* the other stays in its folder, which is retained, counted as
\* already_in_place; and no file of the start is lost.
C29_LowerTwinMoved ==
    /\ (last.op = "restore_files" /\ last.raised = "none") =>
          \A pair \in Twins :
              /\ ~Stays(pair[1]) /\ AtTop(pair[1])
              /\ Stays(pair[2]) /\ Retained(pair[2][1])
              /\ pair[2] \in InPlace
              /\ last.result.already_in_place >= 1
    /\ last.op = "restore_files" => AllKept

\* C29 amended: that holds when the move of the earlier folder's file
\* succeeds.  When it fails the file stays in its folder, counted as failed,
\* and the later folder's file is the one moved to the top level, unless the
\* failed move left a copy there or its own move fails too.  No file of the
\* start is lost either way.
C29_LowerTwinMovedUnlessFailed ==
    /\ (last.op = "restore_files" /\ last.raised = "none") =>
          \A pair \in Twins :
              IF ~Stays(pair[1])
              THEN /\ AtTop(pair[1])
                   /\ Stays(pair[2]) /\ Retained(pair[2][1])
                   /\ pair[2] \in InPlace
                   /\ last.result.already_in_place >= 1
              ELSE /\ Retained(pair[1][1])
                   /\ last.result.failed >= 1
                   /\ IF Stays(pair[2])
                      THEN Retained(pair[2][1])
                      ELSE AtTop(pair[2]) /\ last.result.moved >= 1
    /\ last.op = "restore_files" => AllKept

\* x.jpg was in both star folders: the one of 0-star is at the top level,
\* the one of 3-star is still in its folder.
C29_Witness ==
    /\ last.op = "restore_files" /\ last.raised = "none"
    /\ <<<<"0-star", "x.jpg">>, <<"3-star", "x.jpg">>>> \in Twins
    /\ InPath("0-star", "x.jpg") \notin DOMAIN fs
    /\ fs[PathOf("x.jpg")] = File(TRUE, StartContent("0-star"))
    /\ fs[InPath("3-star", "x.jpg")] = File(TRUE, StartContent("3-star"))
    /\ last.result.already_in_place = 1 /\ last.result.moved = 1

\* --------------------------------------------------------------------- C30
\* The second manager's save() has just returned.
OtherSaved == last.op = "save_other_end"

\* C30: when the second manager's save() has written, the persisted document
\* is that manager's in-memory document: a record that the first manager had
\* saved and the second one does not hold is no longer persisted.
C30_LastWriterWins ==
    (OtherSaved /\ last.io = "ok") =>
        /\ disk.kind = "mapping" /\ disk.body = rr.data
        /\ \A n \in DOMAIN Get(Get(rr.disk0, "body", <<>>), "files", NoFiles) :
              n \in DOMAIN disk.body.files <=> n \in DOMAIN rr.data.files

\* The first manager had saved a.jpg, which the second one never held: after
\* the second one's save the document has no a.jpg.
C30_Witness ==
    /\ OtherSaved /\ last.io = "ok"
    /\ data # NoData /\ "a.jpg" \in DOMAIN data.files
    /\ rr.disk0.kind = "mapping" /\ "a.jpg" \in DOMAIN rr.disk0.body.files
    /\ "a.jpg" \notin DOMAIN rr.data.files
    /\ "a.jpg" \notin DOMAIN disk.body.files

====
